---------------------------- MODULE Spec2Model ----------------------------
(***************************************************************************)
(* Incremental OHLC bar sampler of src/src/timeframe.rs.                   *)
(*                                                                         *)
(* A NaiveDateTime is modelled as the number of seconds since              *)
(* 2015-01-01 00:00:00 (the first date of the repository's tests), a       *)
(* NaiveDate as the number of days since 2015-01-01; prices (f64) are      *)
(* modelled by small integers, which are totally ordered like every        *)
(* non-NaN f64.                                                            *)
(***************************************************************************)
EXTENDS Integers, Sequences, FiniteSets, TLC

VARIABLES tf, state, res, ticks, pre, log,
          probe, snapshot, lookup, fleet, stream, locals

vars == <<tf, state, res, ticks, pre, log,
          probe, snapshot, lookup, fleet, stream, locals>>

\* The variables of one sampler under next_bar, and the others.
samplerVars == <<state, res, ticks, pre, log>>
otherVars == <<probe, snapshot, lookup, fleet, stream, locals>>

(***************************************************************************)
(* Bounds of the model.                                                    *)
(***************************************************************************)
\* Number of next_bar calls made on one sampler.
MaxTicks == 3
\* Tick timestamps are drawn from the grid points 0..MaxStep of a timeframe,
MaxStep == 3
\* and from the first instant of the period MaxGap periods after the first.
MaxGap == 3
\* Prices are drawn from 0..MaxPrice.
MaxPrice == 1

Prices == 0..MaxPrice

None == [tag |-> "None"]

(***************************************************************************)
(* chrono: the proleptic Gregorian calendar.                               *)
(***************************************************************************)
IsLeap(y) == (y % 4 = 0 /\ y % 100 # 0) \/ y % 400 = 0

DaysInMonth(y, m) ==
    CASE m \in {4, 6, 9, 11} -> 30
      [] m = 2 -> IF IsLeap(y) THEN 29 ELSE 28
      [] OTHER -> 31

\* Days of the years 1 .. y-1.
DaysBeforeYear(y) ==
    365 * (y - 1) + ((y - 1) \div 4) - ((y - 1) \div 100) + ((y - 1) \div 400)

RECURSIVE DaysBeforeMonth(_, _)
DaysBeforeMonth(y, m) ==
    IF m = 1 THEN 0 ELSE DaysBeforeMonth(y, m - 1) + DaysInMonth(y, m - 1)

\* chrono's num_days_from_ce: 0001-01-01 is day 1, a Monday.
NumDaysFromCe(y, m, d) == DaysBeforeYear(y) + DaysBeforeMonth(y, m) + d

EpochDays == NumDaysFromCe(2015, 1, 1)

\* NaiveDate::from_ymd
from_ymd(y, m, d) == NumDaysFromCe(y, m, d) - EpochDays

\* NaiveDate::and_hms
and_hms(d, h, mi, s) == d * 86400 + h * 3600 + mi * 60 + s

\* NaiveDateTime::date
date(dt) == dt \div 86400

hour(dt) == (dt % 86400) \div 3600

minute(dt) == (dt % 3600) \div 60

second(dt) == dt % 60

year(dt) ==
    LET n == date(dt) + EpochDays
        y == (((n - 1) * 400) \div 146097) + 1
    IN  IF DaysBeforeYear(y + 1) < n THEN y + 1
        ELSE IF DaysBeforeYear(y) >= n THEN y - 1
        ELSE y

\* Day of the year, 1-based.
ordinal(dt) == date(dt) + EpochDays - DaysBeforeYear(year(dt))

month(dt) ==
    LET y == year(dt)
        o == ordinal(dt)
    IN  CHOOSE m \in 1..12 :
            DaysBeforeMonth(y, m) < o /\ o <= DaysBeforeMonth(y, m) + DaysInMonth(y, m)

day(dt) == ordinal(dt) - DaysBeforeMonth(year(dt), month(dt))

\* Weekday::num_days_from_monday of dt.weekday(): Monday is 0.
num_days_from_monday(dt) == (date(dt) + EpochDays - 1) % 7

\* Weekday::number_from_monday of dt.weekday(): Monday is 1.
number_from_monday(dt) == num_days_from_monday(dt) + 1

\* A timestamp written as in the tests' date("Y-M-D h:m:s").
Ymdhms(y, m, d, h, mi, s) == and_hms(from_ymd(y, m, d), h, mi, s)

(***************************************************************************)
(* The catalog of samplers: Minute!(name, period), Hour!(name, period),    *)
(* D1, W1, Mn1.                                                            *)
(***************************************************************************)
Minute(period) == [kind |-> "Minute", period |-> period]
Hour(period) == [kind |-> "Hour", period |-> period]

M1 == Minute(1)
M2 == Minute(2)
M3 == Minute(3)
M4 == Minute(4)
M5 == Minute(5)
M6 == Minute(6)
M10 == Minute(10)
M12 == Minute(12)
M15 == Minute(15)
M20 == Minute(20)
M30 == Minute(30)
H1 == Hour(1)
H2 == Hour(2)
H3 == Hour(3)
H4 == Hour(4)
H6 == Hour(6)
H8 == Hour(8)
H12 == Hour(12)
D1 == [kind |-> "D1", period |-> 1]
W1 == [kind |-> "W1", period |-> 1]
Mn1 == [kind |-> "Mn1", period |-> 1]

Timeframes ==
    {M1, M2, M3, M4, M5, M6, M10, M12, M15, M20, M30,
     H1, H2, H3, H4, H6, H8, H12, D1, W1, Mn1}

(***************************************************************************)
(* Boundary functions of each sampler.                                     *)
(***************************************************************************)
\* Mutant of Minute!::next_bar_dt: one period after dt's minute, not after the
\* period's first minute.
Minute_next_bar_dt_Unaligned(period, dt) ==
    and_hms(date(dt), hour(dt), 0, 0) + 60 * (minute(dt) + period)

Minute_next_bar_dt(period, dt) ==
    and_hms(date(dt), hour(dt), 0, 0)
        + 60 * (minute(dt) + (period - (minute(dt) % period)))

Minute_bar_start(period, dt) ==
    and_hms(from_ymd(year(dt), month(dt), day(dt)),
            hour(dt), (minute(dt) \div period) * period, 0)

\* Mutant of Hour!::next_bar_dt: one period after dt's hour, not after the
\* period's first hour.
Hour_next_bar_dt_Unaligned(period, dt) ==
    and_hms(date(dt), hour(dt), 0, 0) + 3600 * period

Hour_next_bar_dt(period, dt) ==
    and_hms(date(dt), 0, 0, 0)
        + 3600 * (hour(dt) + (period - (hour(dt) % period)))

Hour_bar_start(period, dt) ==
    and_hms(from_ymd(year(dt), month(dt), day(dt)),
            (hour(dt) \div period) * period, 0, 0)

D1_next_bar_dt(dt) == and_hms(date(dt), 0, 0, 0) + 86400

D1_bar_start(dt) == and_hms(from_ymd(year(dt), month(dt), day(dt)), 0, 0, 0)

\* Mutant of W1::next_bar_dt: the weekday is counted from Sunday.
W1_next_bar_dt_FromSunday(dt) ==
    LET sub == (num_days_from_monday(dt) + 1) % 7
        add == 7 - sub
    IN  and_hms(date(dt) + add, 0, 0, 0)

W1_next_bar_dt(dt) ==
    LET sub == num_days_from_monday(dt)
        add == 7 - sub
    IN  and_hms(date(dt) + add, 0, 0, 0)

\* Mutant of W1::bar_start: the days since Monday are counted from 1.
W1_bar_start_OffByOne(dt) ==
    and_hms(from_ymd(year(dt), month(dt), day(dt)), 0, 0, 0)
        - 86400 * number_from_monday(dt)

W1_bar_start(dt) ==
    and_hms(from_ymd(year(dt), month(dt), day(dt)), 0, 0, 0)
        - 86400 * (number_from_monday(dt) - 1)

\* Mutant of Mn1::next_bar_dt: December rolls to January of the same year.
Mn1_next_bar_dt_SameYear(dt) ==
    LET d == IF month(dt) = 12
             THEN from_ymd(year(dt), 1, 1)
             ELSE from_ymd(year(dt), month(dt) + 1, 1)
    IN  and_hms(d, 0, 0, 0)

Mn1_next_bar_dt(dt) ==
    LET d == IF month(dt) = 12
             THEN from_ymd(year(dt) + 1, 1, 1)
             ELSE from_ymd(year(dt), month(dt) + 1, 1)
    IN  and_hms(d, 0, 0, 0)

Mn1_bar_start(dt) == and_hms(from_ymd(year(dt), month(dt), 1), 0, 0, 0)

\* Sampler::next_bar_dt, dispatched on the sampler's type.
next_bar_dt(t, dt) ==
    CASE t.kind = "Minute" -> Minute_next_bar_dt(t.period, dt)
      [] t.kind = "Hour" -> Hour_next_bar_dt(t.period, dt)
      [] t.kind = "D1" -> D1_next_bar_dt(dt)
      [] t.kind = "W1" -> W1_next_bar_dt(dt)
      [] t.kind = "Mn1" -> Mn1_next_bar_dt(dt)

\* Sampler::bar_start, dispatched on the sampler's type.
bar_start(t, dt) ==
    CASE t.kind = "Minute" -> Minute_bar_start(t.period, dt)
      [] t.kind = "Hour" -> Hour_bar_start(t.period, dt)
      [] t.kind = "D1" -> D1_bar_start(dt)
      [] t.kind = "W1" -> W1_bar_start(dt)
      [] t.kind = "Mn1" -> Mn1_bar_start(dt)

(***************************************************************************)
(* State, Bar, Bars.                                                       *)
(***************************************************************************)
Max(a, b) == IF a >= b THEN a ELSE b
Min(a, b) == IF a <= b THEN a ELSE b

State_new(bs, nb, open, high, low, close) ==
    [tag |-> "Some", bar_start |-> bs, next_bar_dt |-> nb,
     open |-> open, high |-> high, low |-> low, close |-> close]

Bar(open, high, low, close, bs, nb) ==
    [open |-> open, high |-> high, low |-> low, close |-> close,
     bar_start |-> bs, next_bar_dt |-> nb]

\* impl From<State> for Bar
BarFromState(st) ==
    Bar(st.open, st.high, st.low, st.close, st.bar_start, st.next_bar_dt)

Single(bar) == [tag |-> "Single", bar |-> bar, empty |-> <<>>]
WithEmpty(bar, empty_bars) == [tag |-> "WithEmpty", bar |-> bar, empty |-> empty_bars]

(***************************************************************************)
(* next_bar.                                                               *)
(***************************************************************************)
\* Mutant of the while loop: a period that ends exactly at dt is not pushed.
RECURSIVE EmptyBarsLoop_StrictlyPast(_, _, _, _, _, _)
EmptyBarsLoop_StrictlyPast(t, dt, close, empty_bar_start, empty_bar_end, empty_bars) ==
    IF dt > empty_bar_end
    THEN EmptyBarsLoop_StrictlyPast(t, dt, close, empty_bar_end,
                                    next_bar_dt(t, empty_bar_end),
                                    Append(empty_bars,
                                           Bar(close, close, close, close,
                                               empty_bar_start, empty_bar_end)))
    ELSE [empty_bar_start |-> empty_bar_start, empty_bar_end |-> empty_bar_end,
          empty_bars |-> empty_bars]

\* Mutant of the while loop: empty_bar_start is not advanced.
RECURSIVE EmptyBarsLoop_KeepsStart(_, _, _, _, _, _)
EmptyBarsLoop_KeepsStart(t, dt, close, empty_bar_start, empty_bar_end, empty_bars) ==
    IF dt >= empty_bar_end
    THEN EmptyBarsLoop_KeepsStart(t, dt, close, empty_bar_start,
                                  next_bar_dt(t, empty_bar_end),
                                  Append(empty_bars,
                                         Bar(close, close, close, close,
                                             empty_bar_start, empty_bar_end)))
    ELSE [empty_bar_start |-> empty_bar_start, empty_bar_end |-> empty_bar_end,
          empty_bars |-> empty_bars]

\* The while loop: pushes one empty bar per period that ends at or before dt.
RECURSIVE EmptyBarsLoop(_, _, _, _, _, _)
EmptyBarsLoop(t, dt, close, empty_bar_start, empty_bar_end, empty_bars) ==
    IF dt >= empty_bar_end
    THEN EmptyBarsLoop(t, dt, close, empty_bar_end, next_bar_dt(t, empty_bar_end),
                       Append(empty_bars,
                              Bar(close, close, close, close,
                                  empty_bar_start, empty_bar_end)))
    ELSE [empty_bar_start |-> empty_bar_start, empty_bar_end |-> empty_bar_end,
          empty_bars |-> empty_bars]

\* Mutant of the closing branch: the empty bars carry the triggering tick's price.
ClosePeriod_CarriesTick(t, st, dt, value) ==
    LET full_bar == Bar(st.open, st.high, st.low, st.close,
                        st.bar_start, st.next_bar_dt)
        loop == EmptyBarsLoop(t, dt, value, st.next_bar_dt,
                              next_bar_dt(t, st.next_bar_dt), <<>>)
    IN  [state |-> State_new(loop.empty_bar_start, loop.empty_bar_end,
                             value, value, value, value),
         res |-> IF Len(loop.empty_bars) > 0
                 THEN WithEmpty(full_bar, loop.empty_bars)
                 ELSE Single(full_bar)]

\* Mutant of the closing branch: the result is WithEmpty whatever the list holds.
ClosePeriod_AlwaysWithEmpty(t, st, dt, value) ==
    LET full_bar == Bar(st.open, st.high, st.low, st.close,
                        st.bar_start, st.next_bar_dt)
        loop == EmptyBarsLoop(t, dt, st.close, st.next_bar_dt,
                              next_bar_dt(t, st.next_bar_dt), <<>>)
    IN  [state |-> State_new(loop.empty_bar_start, loop.empty_bar_end,
                             value, value, value, value),
         res |-> WithEmpty(full_bar, loop.empty_bars)]

\* Mutant of the closing branch: the new period is the one right after the
\* closed bar, whatever the loop has pushed.
ClosePeriod_RestartsAfterClosed(t, st, dt, value) ==
    LET full_bar == Bar(st.open, st.high, st.low, st.close,
                        st.bar_start, st.next_bar_dt)
        loop == EmptyBarsLoop(t, dt, st.close, st.next_bar_dt,
                              next_bar_dt(t, st.next_bar_dt), <<>>)
    IN  [state |-> State_new(st.next_bar_dt, next_bar_dt(t, st.next_bar_dt),
                             value, value, value, value),
         res |-> IF Len(loop.empty_bars) > 0
                 THEN WithEmpty(full_bar, loop.empty_bars)
                 ELSE Single(full_bar)]

\* Branch dt >= next_bar_dt: the period has passed.
ClosePeriod(t, st, dt, value) ==
    LET full_bar == Bar(st.open, st.high, st.low, st.close,
                        st.bar_start, st.next_bar_dt)
        loop == EmptyBarsLoop(t, dt, st.close, st.next_bar_dt,
                              next_bar_dt(t, st.next_bar_dt), <<>>)
    IN  [state |-> State_new(loop.empty_bar_start, loop.empty_bar_end,
                             value, value, value, value),
         res |-> IF Len(loop.empty_bars) > 0
                 THEN WithEmpty(full_bar, loop.empty_bars)
                 ELSE Single(full_bar)]

\* Mutant of the accumulating branch: the running minimum is not updated.
Accumulate_KeepsLow(st, value) ==
    LET high == Max(value, st.high)
        close == value
    IN  [state |-> State_new(st.bar_start, st.next_bar_dt, st.open, high, st.low, close),
         res |-> None]

\* Mutant of the accumulating branch: close is not updated.
Accumulate_KeepsClose(st, value) ==
    LET high == Max(value, st.high)
        low == Min(value, st.low)
    IN  [state |-> State_new(st.bar_start, st.next_bar_dt, st.open, high, low, st.close),
         res |-> None]

\* Mutant of the accumulating branch: the running maximum is not updated.
Accumulate_KeepsHigh(st, value) ==
    LET low == Min(value, st.low)
        close == value
    IN  [state |-> State_new(st.bar_start, st.next_bar_dt, st.open, st.high, low, close),
         res |-> None]

\* Branch dt < next_bar_dt: the tick is accumulated.
Accumulate(st, value) ==
    LET high == Max(value, st.high)
        low == Min(value, st.low)
        close == value
    IN  [state |-> State_new(st.bar_start, st.next_bar_dt, st.open, high, low, close),
         res |-> None]

\* Mutant of the first-tick branch: the extrema start from 0, not from the tick.
FirstTick_ZeroExtrema(t, dt, value) ==
    LET nb == next_bar_dt(t, dt)
    IN  [state |-> State_new(bar_start(t, dt), nb, value, 0, 0, value),
         res |-> None]

\* Mutant of the first-tick branch: the period starts at the tick.
FirstTick_StartsAtTick(t, dt, value) ==
    LET nb == next_bar_dt(t, dt)
    IN  [state |-> State_new(dt, nb, value, value, value, value),
         res |-> None]

\* Branch None: the first tick.
FirstTick(t, dt, value) ==
    LET nb == next_bar_dt(t, dt)
    IN  [state |-> State_new(bar_start(t, dt), nb, value, value, value, value),
         res |-> None]

\* Mutant of next_bar: a tick exactly at next_bar_dt does not close the period.
next_bar_StrictlyPast(t, st, dt, value) ==
    IF st # None
    THEN IF dt > st.next_bar_dt
         THEN ClosePeriod(t, st, dt, value)
         ELSE Accumulate(st, value)
    ELSE FirstTick(t, dt, value)

next_bar(t, st, dt, value) ==
    IF st # None
    THEN IF dt >= st.next_bar_dt
         THEN ClosePeriod(t, st, dt, value)
         ELSE Accumulate(st, value)
    ELSE FirstTick(t, dt, value)

current_incomplete(st) == IF st = None THEN None ELSE BarFromState(st)

(***************************************************************************)
(* The ticks fed to a sampler.  Periods are counted from a first period    *)
(* chosen next to an hour, day, month or year end.  Grid point q lies in   *)
(* period q \div 2: an even point is the period's first instant, an odd    *)
(* one lies inside it.  One more instant, the first of period MaxGap,      *)
(* follows a silence of several periods.                                   *)
(***************************************************************************)
PeriodSeconds(t) ==
    CASE t.kind = "Minute" -> 60 * t.period
      [] t.kind = "Hour" -> 3600 * t.period
      [] t.kind = "D1" -> 86400
      [] t.kind = "W1" -> 7 * 86400
      [] t.kind = "Mn1" -> 0

Origin(t) ==
    CASE t.kind = "Minute" -> Ymdhms(2015, 1, 1, 23, 60 - 2 * t.period, 0)
      [] t.kind = "Hour" -> Ymdhms(2015, 1, 1, 24 - 2 * t.period, 0, 0)
      [] t.kind = "D1" -> Ymdhms(2015, 2, 27, 0, 0, 0)
      [] t.kind = "W1" -> Ymdhms(2015, 12, 21, 0, 0, 0)
      [] t.kind = "Mn1" -> Ymdhms(2015, 11, 1, 0, 0, 0)

\* The instant of period p: its first one, or (inside = 1) one near its middle.
PeriodPoint(t, p, inside) ==
    IF t.kind = "Mn1"
    THEN LET k == 10 + p
         IN  Ymdhms(2015 + (k \div 12), 1 + (k % 12), 1 + 15 * inside,
                    10 * inside, 45 * inside, 2 * inside)
    ELSE Origin(t) + p * PeriodSeconds(t)
            + inside * ((PeriodSeconds(t) \div 2) + 2)

TickTime(t, q) == PeriodPoint(t, q \div 2, q % 2)

TickTimes(t) == {TickTime(t, q) : q \in 0..MaxStep} \cup {PeriodPoint(t, MaxGap, 0)}

\* The number of the calendar period that holds dt, counted from the first.
PeriodIndex(t, dt) ==
    IF t.kind = "Mn1"
    THEN (12 * year(dt) + month(dt)) - (12 * 2015 + 11)
    ELSE (dt - Origin(t)) \div PeriodSeconds(t)

(***************************************************************************)
(* The state machine: a sampler is constructed by default() and fed ticks. *)
(* One sampler of each implementation is run: the two ends of the          *)
(* Minute! family, an Hour! sampler, D1, W1 and Mn1; next!() is the same   *)
(* text in all of them.                                                    *)
(*   tf     the sampler's type                                             *)
(*   state  self.state                                                     *)
(*   res    the value returned by the last next_bar call                   *)
(*   ticks  the (dt, value) arguments of the calls made so far             *)
(*   pre    self.state before the last next_bar call                       *)
(*   log    after each call so far, self.state and the value returned      *)
(* The other variables belong to the specifications defined further down   *)
(* and keep their initial value here:                                      *)
(*   probe     the last calls of bar_start and next_bar_dt (SpecBoundary)  *)
(*   snapshot  the value returned by the last current_incomplete call      *)
(*   lookup    the last from_short call (SpecFactory)                      *)
(*   fleet, stream  several samplers fed one tick stream (SpecFanOut)      *)
(*   locals    the locals of next_bar's while loop (SpecLoop)              *)
(***************************************************************************)
Samplers == {M1, M15, H12, D1, W1, Mn1}

NotCalled == [tag |-> "NotCalled"]

InitSampler ==
    /\ state = None
    /\ res = None
    /\ ticks = <<>>
    /\ pre = None
    /\ log = <<>>

InitOther ==
    /\ probe = None
    /\ snapshot = NotCalled
    /\ lookup = NotCalled
    /\ fleet = <<>>
    /\ stream = <<>>
    /\ locals = [pc |-> "idle"]

Init ==
    /\ tf \in Samplers
    /\ InitSampler
    /\ InitOther

\* One call sampler.next_bar(dt, value).
NextBar ==
    /\ Len(ticks) < MaxTicks
    /\ \E dt \in TickTimes(tf), value \in Prices :
          LET r == next_bar(tf, state, dt, value)
          IN  /\ state' = r.state
              /\ res' = r.res
              /\ pre' = state
              /\ ticks' = Append(ticks, [dt |-> dt, value |-> value])
              /\ log' = Append(log, r)
    /\ UNCHANGED <<tf, otherVars>>

Next == NextBar

Spec == Init /\ [][Next]_vars

\* A fresh sampler of type t fed the calls of seq in order: its state and the
\* value each call returned.
RECURSIVE Run(_, _)
Run(t, seq) ==
    IF seq = <<>>
    THEN [state |-> None, out |-> <<>>]
    ELSE LET r0 == Run(t, SubSeq(seq, 1, Len(seq) - 1))
             r == next_bar(t, r0.state, seq[Len(seq)].dt, seq[Len(seq)].value)
         IN  [state |-> r.state, out |-> Append(r0.out, r.res)]

Tick(dt, value) == [dt |-> dt, value |-> value]

(***************************************************************************)
(* Vocabulary of the properties.                                           *)
(***************************************************************************)
Called == ticks # <<>>

LastDt == ticks[Len(ticks)].dt

LastValue == ticks[Len(ticks)].value

\* The timestamps of the calls made so far never decrease.
Ordered == \A i \in 1..(Len(ticks) - 1) : ticks[i].dt <= ticks[i + 1].dt

\* The last call came with a timestamp earlier than the call before it.
LastOutOfOrder == Len(ticks) >= 2 /\ LastDt < ticks[Len(ticks) - 1].dt

Emitted == res # None

\* The last call found the sampler accumulating a period that dt has passed.
Closing == Called /\ pre # None /\ LastDt >= pre.next_bar_dt

\* The last call found the sampler accumulating the period that holds dt.
Within == Called /\ pre # None /\ pre.bar_start <= LastDt /\ LastDt < pre.next_bar_dt

\* The closed bar followed by the empty bars of the last result.
ResultBars == <<res.bar>> \o res.empty

\* Whole periods strictly between the period closed by the last call and the
\* period that holds its tick.
PeriodsBetween == PeriodIndex(tf, LastDt) - PeriodIndex(tf, pre.bar_start) - 1

RECURSIVE MaxOf(_)
MaxOf(seq) ==
    IF Len(seq) = 1 THEN seq[1] ELSE Max(seq[1], MaxOf(Tail(seq)))

RECURSIVE MinOf(_)
MinOf(seq) ==
    IF Len(seq) = 1 THEN seq[1] ELSE Min(seq[1], MinOf(Tail(seq)))

\* The batch reference: the prices, in arrival order, of the ticks of seq whose
\* timestamp lies in [from, to).
PricesIn(seq, from, to) ==
    LET InPeriod(tk) == from <= tk.dt /\ tk.dt < to
        sel == SelectSeq(seq, InPeriod)
    IN  [i \in 1..Len(sel) |-> sel[i].value]

(***************************************************************************)
(* C1: for ticks with non-decreasing timestamps, every closed bar emitted  *)
(* by next_bar for [bar_start, next_bar_dt) has open = the price of the    *)
(* first tick of that period, close = the price of the last one, high the  *)
(* maximum and low the minimum of the prices of all the ticks of that      *)
(* period: the sampler agrees with a batch aggregation by period.          *)
(***************************************************************************)
C1_ClosedBarIsBatchAggregate ==
    (Ordered /\ Emitted) =>
        LET bar == res.bar
            ps == PricesIn(SubSeq(ticks, 1, Len(ticks) - 1),
                           bar.bar_start, bar.next_bar_dt)
        IN  /\ ps # <<>>
            /\ bar.open = ps[1]
            /\ bar.close = ps[Len(ps)]
            /\ bar.high = MaxOf(ps)
            /\ bar.low = MinOf(ps)

\* A bar closed over two ticks, the second one below the first.
C1_Witness ==
    /\ Ordered
    /\ Emitted
    /\ Len(ticks) = 3
    /\ res.bar.low < res.bar.open
    /\ res.bar.close = res.bar.low

(***************************************************************************)
(* C2: when the sampler accumulates [period_start, period_end) and a tick  *)
(* arrives with timestamp >= period_end (equality included), the first bar *)
(* of the result is the accumulation held before the call, boundaries and  *)
(* OHLC, without the triggering tick's price.  Example: the M15 ticks      *)
(* (10:03:00, 0), (10:04:00, 4), (10:15:00, 15) close [10:00:00, 10:15:00) *)
(* with open = 0, high = 4, low = 0, close = 4.                            *)
(***************************************************************************)
C2_Example ==
    LET run == Run(M15, <<Tick(Ymdhms(2015, 1, 1, 10, 3, 0), 0),
                          Tick(Ymdhms(2015, 1, 1, 10, 4, 0), 4),
                          Tick(Ymdhms(2015, 1, 1, 10, 15, 0), 15)>>)
    IN  /\ run.out[1] = None
        /\ run.out[2] = None
        /\ run.out[3] = Single(Bar(0, 4, 0, 4, Ymdhms(2015, 1, 1, 10, 0, 0),
                                   Ymdhms(2015, 1, 1, 10, 15, 0)))

C2_ClosingTickEmitsHeldBar ==
    /\ Closing => (Emitted /\ res.bar = BarFromState(pre))
    /\ C2_Example

\* A tick exactly at period_end, with a price other than the held close.
C2_Witness ==
    /\ Closing
    /\ LastDt = pre.next_bar_dt
    /\ pre.open # pre.close
    /\ LastValue # pre.close
    /\ res.bar.close = pre.close

(***************************************************************************)
(* C3: if a tick arrives at t0 and the next one at t0 + k * period_length  *)
(* (k >= 2, none between), the second call emits exactly k - 1 empty bars  *)
(* after the closed bar (0 when k = 1); in general the number of empty     *)
(* bars is the number of whole periods strictly between the closed period  *)
(* and the period that holds the triggering tick.                          *)
(***************************************************************************)
C3_GapFillCount ==
    /\ Closing => Len(res.empty) = PeriodsBetween
    /\ (Ordered /\ Len(ticks) >= 2 /\ PeriodSeconds(tf) > 0) =>
          \A k \in 1..(MaxGap + 1) :
              LastDt = ticks[Len(ticks) - 1].dt + k * PeriodSeconds(tf)
                  => (Emitted /\ Len(res.empty) = k - 1)

\* Two ticks three periods apart: two empty bars.
C3_Witness ==
    /\ Ordered
    /\ Len(ticks) >= 2
    /\ PeriodSeconds(tf) > 0
    /\ LastDt = ticks[Len(ticks) - 1].dt + 3 * PeriodSeconds(tf)
    /\ Emitted
    /\ Len(res.empty) = 2

(***************************************************************************)
(* C4: every empty bar emitted by next_bar has open = high = low = close = *)
(* the close of the bar closed in the same call (the last price seen       *)
(* before the gap), never the price of the triggering tick.                *)
(***************************************************************************)
C4_EmptyBarsCarryClose ==
    Emitted =>
        \A i \in 1..Len(res.empty) :
            /\ res.empty[i].open = res.bar.close
            /\ res.empty[i].high = res.bar.close
            /\ res.empty[i].low = res.bar.close
            /\ res.empty[i].close = res.bar.close
            /\ res.empty[i].close = pre.close

\* Empty bars emitted by a tick whose price is not the closed bar's close.
C4_Witness ==
    /\ Emitted
    /\ res.tag = "WithEmpty"
    /\ LastValue # res.bar.close
    /\ res.empty[1].open = res.bar.close

(***************************************************************************)
(* C5: in the result of one next_bar call, the closed bar followed by the  *)
(* empty bars is contiguous and non-overlapping: each bar starts at the    *)
(* next_bar_dt of the bar before it, every bar has bar_start <             *)
(* next_bar_dt, and the new in-progress period starts at the next_bar_dt   *)
(* of the last emitted bar.                                                *)
(***************************************************************************)
C5_ResultIsContiguous ==
    Emitted =>
        /\ \A i \in 1..Len(ResultBars) :
              /\ ResultBars[i].bar_start < ResultBars[i].next_bar_dt
              /\ i > 1 => ResultBars[i].bar_start = ResultBars[i - 1].next_bar_dt
        /\ state.bar_start = ResultBars[Len(ResultBars)].next_bar_dt

\* A closed bar followed by two empty bars.
C5_Witness ==
    /\ Emitted
    /\ Len(ResultBars) = 3
    /\ state.bar_start = ResultBars[3].next_bar_dt

(***************************************************************************)
(* C6: the first next_bar call on a fresh sampler (state None) returns     *)
(* None for every timestamp and price and leaves the sampler accumulating  *)
(* with open = high = low = close = the tick's price.                      *)
(***************************************************************************)
C6_FirstTickNeverEmits ==
    (Called /\ pre = None) =>
        /\ Len(ticks) = 1
        /\ res = None
        /\ state # None
        /\ state.open = LastValue
        /\ state.high = LastValue
        /\ state.low = LastValue
        /\ state.close = LastValue

\* A first tick inside a period, with a price other than 0.
C6_Witness ==
    /\ Called
    /\ pre = None
    /\ LastValue > 0
    /\ state.bar_start < LastDt
    /\ state.close = LastValue

C8_OutOfOrderIsReported ==
    LastOutOfOrder => res.tag \notin {"None", "Single", "WithEmpty"}

(***************************************************************************)
(* C9: a next_bar call whose timestamp is strictly earlier than the        *)
(* previous tick's timestamp (in particular one earlier than the current   *)
(* period_start) leaves the in-progress bar's high and low unchanged.      *)
(* next_bar folds the late tick's price into high and low: the formula     *)
(* fails.                                                                  *)
(***************************************************************************)
C9_OutOfOrderKeepsExtrema ==
    (LastOutOfOrder /\ pre # None) =>
        /\ state.high = pre.high
        /\ state.low = pre.low

(***************************************************************************)
(* C10: whenever next_bar emits, the result is Single(bar) exactly when no *)
(* empty period lies between the closed period and the triggering tick's   *)
(* period, and WithEmpty(bar, empties) exactly when at least one does; a   *)
(* WithEmpty result never carries an empty list.                           *)
(***************************************************************************)
C10_ResultShape ==
    Emitted =>
        /\ res.tag \in {"Single", "WithEmpty"}
        /\ (res.tag = "Single") <=> (PeriodsBetween = 0)
        /\ (res.tag = "WithEmpty") <=> (PeriodsBetween >= 1)
        /\ (res.tag = "WithEmpty") => (res.empty # <<>>)
        /\ (res.tag = "Single") => (res.empty = <<>>)

\* A tick inside the period after the next: one empty period lies between.
C10_Witness ==
    /\ Emitted
    /\ PeriodsBetween = 1
    /\ res.tag = "WithEmpty"
    /\ Len(res.empty) = 1
    /\ LastDt >= state.bar_start

(***************************************************************************)
(* The boundary functions on their own: bar_start and next_bar_dt of a     *)
(* sampler of any type of the catalog, called with a timestamp dt and      *)
(* with a later one.  The timestamps of a type run over MaxProbe units (a  *)
(* minute for Minute!, an hour for Hour!, a day for D1, W1 and Mn1) from   *)
(* an origin placed before a year end (Minute!, days) or before a leap     *)
(* day (Hour!), at the first, second and last second of each unit.         *)
(***************************************************************************)
\* Number of units the probed timestamps run over.
MaxProbe == 90

ProbeUnit(t) ==
    CASE t.kind = "Minute" -> 60
      [] t.kind = "Hour" -> 3600
      [] OTHER -> 86400

ProbeOrigin(t) ==
    CASE t.kind = "Minute" -> Ymdhms(2015, 12, 31, 22, 50, 0)
      [] t.kind = "Hour" -> Ymdhms(2016, 2, 27, 12, 0, 0)
      [] OTHER -> Ymdhms(2015, 12, 15, 0, 0, 0)

ProbeTimes(t) ==
    {ProbeOrigin(t) + i * ProbeUnit(t) + o :
        i \in 0..MaxProbe, o \in {0, 1, ProbeUnit(t) - 1}}

\* How much later the second timestamp is: nothing, a second, a unit, or more
\* than the longest period.
ProbeDeltas(t) == {0, 1, ProbeUnit(t), 45 * ProbeUnit(t)}

InitBoundary ==
    /\ tf \in Timeframes
    /\ InitSampler
    /\ InitOther

\* sampler.bar_start(dt), sampler.next_bar_dt(dt), and next_bar_dt of the
\* results and of a later timestamp.  A run probes one timestamp.
BoundaryCalls ==
    /\ probe = None
    /\ \E dt \in ProbeTimes(tf), delta \in ProbeDeltas(tf) :
          LET bs == bar_start(tf, dt)
              nb == next_bar_dt(tf, dt)
          IN  probe' = [dt |-> dt, later |-> dt + delta,
                        bar_start |-> bs, next_bar_dt |-> nb,
                        next_of_start |-> next_bar_dt(tf, bs),
                        next_of_next |-> next_bar_dt(tf, nb),
                        next_of_later |-> next_bar_dt(tf, dt + delta)]
    /\ UNCHANGED <<tf, samplerVars, snapshot, lookup, fleet, stream, locals>>

NextBoundary == BoundaryCalls

SpecBoundary == InitBoundary /\ [][NextBoundary]_vars

Probed == probe # None

\* The period boundaries of a timeframe, as its calendar rule states them.
IsBoundary(t, b) ==
    CASE t.kind = "Minute" -> second(b) = 0 /\ minute(b) % t.period = 0
      [] t.kind = "Hour" -> second(b) = 0 /\ minute(b) = 0 /\ hour(b) % t.period = 0
      [] t.kind = "D1" -> b % 86400 = 0
      [] t.kind = "W1" -> b % 86400 = 0 /\ num_days_from_monday(b) = 0
      [] t.kind = "Mn1" -> b % 86400 = 0 /\ day(b) = 1

\* a and b are boundaries, a before b, with no boundary between them (every
\* boundary is a whole number of units).
Adjacent(t, a, b) ==
    /\ IsBoundary(t, a)
    /\ IsBoundary(t, b)
    /\ a < b
    /\ \A k \in 1..(((b - a) \div ProbeUnit(t)) - 1) :
          ~IsBoundary(t, a + k * ProbeUnit(t))

(***************************************************************************)
(* C11: for every timeframe of the catalog and every timestamp t,          *)
(* bar_start(t) is the latest period boundary <= t and next_bar_dt(t) the  *)
(* earliest period boundary > t (so bar_start(t) <= t < next_bar_dt(t));   *)
(* next_bar_dt is monotonic (t1 <= t2 implies next_bar_dt(t1) <=           *)
(* next_bar_dt(t2)); applied to a boundary it advances exactly one period. *)
(***************************************************************************)
C11_BoundaryFunctions ==
    Probed =>
        /\ Adjacent(tf, probe.bar_start, probe.next_bar_dt)
        /\ probe.bar_start <= probe.dt
        /\ probe.dt < probe.next_bar_dt
        /\ probe.dt <= probe.later
        /\ probe.next_bar_dt <= probe.next_of_later
        /\ Adjacent(tf, probe.next_bar_dt, probe.next_of_next)

\* A weekly period probed on a Sunday, one second before the next boundary.
C11_Witness ==
    /\ Probed
    /\ tf = W1
    /\ num_days_from_monday(probe.dt) = 6
    /\ probe.dt + 1 = probe.next_bar_dt
    /\ probe.later > probe.next_bar_dt
    /\ probe.next_of_later > probe.next_of_next

(***************************************************************************)
(* C12: for the monthly sampler, next_bar_dt of any timestamp in December  *)
(* of year Y is January 1 00:00 of year Y + 1, and of any timestamp in a   *)
(* month m < 12 the 1st 00:00 of month m + 1 of the same year; the month   *)
(* of a boundary is always in 1..12, so gap-filling across a year end      *)
(* emits the December bar ending on January 1 of the next year (the last   *)
(* two calls of test_mn1).                                                 *)
(***************************************************************************)
C12_Example ==
    LET run == Run(Mn1, <<Tick(Ymdhms(2020, 10, 26, 0, 0, 0), 3),
                          Tick(Ymdhms(2021, 1, 1, 0, 0, 1), 3)>>)
    IN  /\ run.out[2] =
              WithEmpty(Bar(3, 3, 3, 3, Ymdhms(2020, 10, 1, 0, 0, 0),
                            Ymdhms(2020, 11, 1, 0, 0, 0)),
                        <<Bar(3, 3, 3, 3, Ymdhms(2020, 11, 1, 0, 0, 0),
                              Ymdhms(2020, 12, 1, 0, 0, 0)),
                          Bar(3, 3, 3, 3, Ymdhms(2020, 12, 1, 0, 0, 0),
                              Ymdhms(2021, 1, 1, 0, 0, 0))>>)
        /\ run.state.bar_start = Ymdhms(2021, 1, 1, 0, 0, 0)
        /\ run.state.next_bar_dt = Ymdhms(2021, 2, 1, 0, 0, 0)

C12_MonthRollover ==
    (Probed /\ tf = Mn1) =>
          /\ month(probe.dt) = 12 =>
                probe.next_bar_dt = Ymdhms(year(probe.dt) + 1, 1, 1, 0, 0, 0)
          /\ month(probe.dt) < 12 =>
                probe.next_bar_dt =
                    Ymdhms(year(probe.dt), month(probe.dt) + 1, 1, 0, 0, 0)
          /\ month(probe.next_bar_dt) \in 1..12
          /\ month(probe.next_bar_dt) = (month(probe.dt) % 12) + 1
          /\ probe.next_bar_dt > probe.dt
          /\ month(probe.dt) = 12 => C12_Example

\* The last second of December 2015: the next boundary is in January 2016.
C12_Witness ==
    /\ Probed
    /\ tf = Mn1
    /\ probe.dt = Ymdhms(2015, 12, 31, 23, 59, 59)
    /\ year(probe.next_bar_dt) = 2016
    /\ month(probe.next_bar_dt) = 1

(***************************************************************************)
(* C13: weekly periods run from Monday 00:00 to the next Monday 00:00.  In *)
(* test_w1 the first tick, on Monday 2021-01-04 10:45:02, opens the period *)
(* [2021-01-04 00:00:00, 2021-01-11 00:00:00), and after the ticks of      *)
(* 2021-01-05 00:00:00 and 2021-01-11 00:00:00 the tick of Tuesday         *)
(* 2021-01-26 00:00:00 returns the closed bar [2021-01-11, 2021-01-18)     *)
(* with exactly one empty bar [2021-01-18, 2021-01-25).                    *)
(***************************************************************************)
test_w1_ticks ==
    <<Tick(Ymdhms(2021, 1, 4, 10, 45, 2), 0),
      Tick(Ymdhms(2021, 1, 5, 0, 0, 0), 1),
      Tick(Ymdhms(2021, 1, 11, 0, 0, 0), 2),
      Tick(Ymdhms(2021, 1, 26, 0, 0, 0), 3)>>

C13_Example ==
    LET first == Run(W1, SubSeq(test_w1_ticks, 1, 1))
        run == Run(W1, test_w1_ticks)
    IN  /\ num_days_from_monday(Ymdhms(2021, 1, 4, 10, 45, 2)) = 0
        /\ num_days_from_monday(Ymdhms(2021, 1, 26, 0, 0, 0)) = 1
        /\ first.out = <<None>>
        /\ first.state.bar_start = Ymdhms(2021, 1, 4, 0, 0, 0)
        /\ first.state.next_bar_dt = Ymdhms(2021, 1, 11, 0, 0, 0)
        /\ run.out[1] = None
        /\ run.out[2] = None
        /\ run.out[3] = Single(Bar(0, 1, 0, 1, Ymdhms(2021, 1, 4, 0, 0, 0),
                                   Ymdhms(2021, 1, 11, 0, 0, 0)))
        /\ run.out[4] =
              WithEmpty(Bar(2, 2, 2, 2, Ymdhms(2021, 1, 11, 0, 0, 0),
                            Ymdhms(2021, 1, 18, 0, 0, 0)),
                        <<Bar(2, 2, 2, 2, Ymdhms(2021, 1, 18, 0, 0, 0),
                              Ymdhms(2021, 1, 25, 0, 0, 0))>>)
        /\ run.state.bar_start = Ymdhms(2021, 1, 25, 0, 0, 0)
        /\ run.state.next_bar_dt = Ymdhms(2021, 2, 1, 0, 0, 0)

C13_WeeklyAlignment ==
    (Probed /\ tf = W1) =>
        /\ num_days_from_monday(probe.bar_start) = 0
        /\ probe.bar_start = and_hms(date(probe.bar_start), 0, 0, 0)
        /\ num_days_from_monday(probe.next_bar_dt) = 0
        /\ probe.next_bar_dt = probe.bar_start + 7 * 86400
        /\ probe.bar_start <= probe.dt
        /\ probe.dt < probe.next_bar_dt
        /\ C13_Example

\* A weekly period probed on a Wednesday at one second past midnight.
C13_Witness ==
    /\ Probed
    /\ tf = W1
    /\ num_days_from_monday(probe.dt) = 2
    /\ second(probe.dt) = 1
    /\ date(probe.bar_start) = date(probe.dt) - 2
    /\ date(probe.next_bar_dt) = date(probe.dt) + 5

(***************************************************************************)
(* Snapshots between next_bar calls.  snapshot holds the value returned by *)
(* the latest current_incomplete call and the number of next_bar calls     *)
(* made before it.                                                         *)
(***************************************************************************)
\* Mutant of current_incomplete: the state is moved out (Option::take)
\* instead of cloned.
CurrentIncomplete_Takes ==
    /\ snapshot' = [tag |-> "Called", at |-> Len(ticks),
                    bar |-> current_incomplete(state)]
    /\ state' = None
    /\ UNCHANGED <<tf, res, ticks, pre, log, probe, lookup, fleet, stream, locals>>

CurrentIncomplete ==
    /\ snapshot' = [tag |-> "Called", at |-> Len(ticks),
                    bar |-> current_incomplete(state)]
    /\ UNCHANGED <<tf, samplerVars, probe, lookup, fleet, stream, locals>>

NextSnapshot == NextBar \/ CurrentIncomplete

\* The sampler of test_m15 and one with periods of varying length.
SnapshotSamplers == {M15, Mn1}

InitSnapshot == tf \in SnapshotSamplers /\ InitSampler /\ InitOther

SpecSnapshot == InitSnapshot /\ [][NextSnapshot]_vars

\* The state left by the n-th next_bar call (None before the first).
StateAfter(n) == IF n = 0 THEN None ELSE log[n].state

(***************************************************************************)
(* C14: current_incomplete returns None on a sampler that has seen no tick *)
(* and otherwise a Bar equal field by field to the in-progress state; any  *)
(* number of calls between next_bar calls leaves the sampler state as the  *)
(* last next_bar call left it, and every next_bar call returns what it     *)
(* returns from that state.                                                *)
(***************************************************************************)
C14_SnapshotIsReadOnly ==
    /\ Len(log) = Len(ticks)
    /\ state = StateAfter(Len(ticks))
    /\ Called =>
          log[Len(ticks)] = next_bar(tf, StateAfter(Len(ticks) - 1),
                                     LastDt, LastValue)
    /\ snapshot # NotCalled =>
          LET st == StateAfter(snapshot.at)
          IN  /\ snapshot.at = 0 => snapshot.bar = None
              /\ snapshot.at > 0 =>
                    /\ snapshot.bar # None
                    /\ snapshot.bar.bar_start = st.bar_start
                    /\ snapshot.bar.next_bar_dt = st.next_bar_dt
                    /\ snapshot.bar.open = st.open
                    /\ snapshot.bar.high = st.high
                    /\ snapshot.bar.low = st.low
                    /\ snapshot.bar.close = st.close

\* A snapshot taken after the first tick, followed by a closing tick that
\* returns the period the snapshot showed.
C14_Witness ==
    /\ snapshot # NotCalled
    /\ snapshot.at = 1
    /\ Len(ticks) = 2
    /\ res # None
    /\ res.bar = snapshot.bar

(***************************************************************************)
(* The factory.  lookup holds the code passed to the latest from_short     *)
(* call and the sampler it returned; a returned sampler is then fed ticks. *)
(***************************************************************************)
from_short(short) ==
    CASE short = "M1" -> M1
      [] short = "M2" -> M2
      [] short = "M3" -> M3
      [] short = "M4" -> M4
      [] short = "M5" -> M5
      [] short = "M6" -> M6
      [] short = "M10" -> M10
      [] short = "M12" -> M12
      [] short = "M15" -> M15
      [] short = "M20" -> M20
      [] short = "M30" -> M30
      [] short = "H1" -> H1
      [] short = "H2" -> H2
      [] short = "H3" -> H3
      [] short = "H4" -> H4
      [] short = "H6" -> H6
      [] short = "H8" -> H8
      [] short = "H12" -> H12
      [] OTHER -> None

\* The codes of the timeframe catalog and the sampler type each one names.
Catalog ==
    [M1 |-> M1, M2 |-> M2, M3 |-> M3, M4 |-> M4, M5 |-> M5, M6 |-> M6,
     M10 |-> M10, M12 |-> M12, M15 |-> M15, M20 |-> M20, M30 |-> M30,
     H1 |-> H1, H2 |-> H2, H3 |-> H3, H4 |-> H4, H6 |-> H6, H8 |-> H8,
     H12 |-> H12, D1 |-> D1, W1 |-> W1, MN1 |-> Mn1]

\* Strings that are not codes of the catalog.
OtherCodes == {"", "m15", "M7", "M60", "H5", "H24", "D2", "W2", "Mn1", "1M"}

Shorts == DOMAIN Catalog \cup OtherCodes

InitFactory == tf = None /\ InitSampler /\ InitOther

FromShort ==
    /\ lookup = NotCalled
    /\ \E short \in Shorts :
          LET sampler == from_short(short)
          IN  /\ lookup' = [tag |-> "Called", short |-> short,
                            sampler |-> sampler]
              /\ tf' = sampler
    /\ UNCHANGED <<samplerVars, probe, snapshot, fleet, stream, locals>>

\* next_bar on the sampler the factory returned.
FactoryNextBar ==
    /\ lookup # NotCalled
    /\ lookup.sampler # None
    /\ NextBar

NextFactory == FromShort \/ FactoryNextBar

SpecFactory == InitFactory /\ [][NextFactory]_vars

(***************************************************************************)
(* C15: from_short returns a constructed sampler for every timeframe code  *)
(* of the catalog (the minute codes M1..M30, the hour codes H1..H12, and   *)
(* "D1", "W1", "MN1"), and None for every other string.                    *)
(***************************************************************************)
C15_FactoryLookup ==
    lookup # NotCalled =>
        /\ lookup.short \in DOMAIN Catalog =>
              lookup.sampler = Catalog[lookup.short]
        /\ lookup.short \notin DOMAIN Catalog => lookup.sampler = None

(***************************************************************************)
(* Fan-out.  The caller owns several samplers, one per timeframe, and      *)
(* passes every tick of one stream to each of them; an instance is a       *)
(* sampler's type and state, the results it has returned and the number of *)
(* ticks of the stream it has been given.  Each instance takes the ticks   *)
(* in the stream's order, at its own pace.                                 *)
(***************************************************************************)
MaxStream == 2

Instance(t) == [tf |-> t, state |-> None, out |-> <<>>, seen |-> 0]

\* Two timeframes of one family and two calendar timeframes.
Fleets == {<<Instance(M15), Instance(M30)>>, <<Instance(W1), Instance(Mn1)>>}

\* The stream's ticks lie on the grid of the fleet's finest timeframe.
StreamTimes == TickTimes(fleet[1].tf)

InitFanOut ==
    /\ tf = None
    /\ InitSampler
    /\ probe = None
    /\ snapshot = NotCalled
    /\ lookup = NotCalled
    /\ fleet \in Fleets
    /\ stream = <<>>
    /\ locals = [pc |-> "idle"]

\* The caller receives the next tick of the stream.
Publish ==
    /\ Len(stream) < MaxStream
    /\ \E dt \in StreamTimes, value \in Prices :
          stream' = Append(stream, Tick(dt, value))
    /\ UNCHANGED <<tf, samplerVars, probe, snapshot, lookup, fleet, locals>>

\* Mutant of the sampler! struct: the state lives in one place shared by
\* all instances.
Feed_SharedState(i) ==
    /\ fleet[i].seen < Len(stream)
    /\ LET s == fleet[i]
           tick == stream[s.seen + 1]
           r == next_bar(s.tf, s.state, tick.dt, tick.value)
       IN  fleet' = [j \in DOMAIN fleet |->
                        IF j = i
                        THEN [tf |-> s.tf, state |-> r.state,
                              out |-> Append(s.out, r.res),
                              seen |-> s.seen + 1]
                        ELSE [fleet[j] EXCEPT !.state = r.state]]
    /\ UNCHANGED <<tf, samplerVars, probe, snapshot, lookup, stream, locals>>

\* next_bar of instance i on the next tick it has not been given yet.
Feed(i) ==
    /\ fleet[i].seen < Len(stream)
    /\ LET s == fleet[i]
           tick == stream[s.seen + 1]
           r == next_bar(s.tf, s.state, tick.dt, tick.value)
       IN  fleet' = [fleet EXCEPT ![i] = [tf |-> s.tf, state |-> r.state,
                                          out |-> Append(s.out, r.res),
                                          seen |-> s.seen + 1]]
    /\ UNCHANGED <<tf, samplerVars, probe, snapshot, lookup, stream, locals>>

NextFanOut == Publish \/ \E i \in DOMAIN fleet : Feed(i)

SpecFanOut == InitFanOut /\ [][NextFanOut]_vars

(***************************************************************************)
(* C16: when one tick stream is fanned out to several sampler instances    *)
(* and their next_bar calls are interleaved in any order that keeps each   *)
(* instance's own tick order, every instance is in the state, and has      *)
(* returned the results, of a run alone over the ticks it has been given;  *)
(* a next_bar call on one instance leaves the others as they were.         *)
(***************************************************************************)
C16_SamplersAreIndependent ==
    \A i \in DOMAIN fleet :
        [state |-> fleet[i].state, out |-> fleet[i].out] =
            Run(fleet[i].tf, SubSeq(stream, 1, fleet[i].seen))

\* The first instance has been given two ticks and has closed a period,
\* while the second one has been given only the first tick.
C16_Witness ==
    /\ fleet[1].seen = 2
    /\ fleet[2].seen = 1
    /\ fleet[1].out[2] # None
    /\ fleet[2].state # None
    /\ fleet[2].state.next_bar_dt > stream[2].dt

(***************************************************************************)
(* The series: every bar returned so far, closed and empty, in the order   *)
(* of emission.                                                            *)
(***************************************************************************)
BarsOf(r) == IF r = None THEN <<>> ELSE <<r.bar>> \o r.empty

RECURSIVE SeriesUpTo(_)
SeriesUpTo(n) ==
    IF n = 0 THEN <<>> ELSE SeriesUpTo(n - 1) \o BarsOf(log[n].res)

Series == SeriesUpTo(Len(log))

(***************************************************************************)
(* C17: for calls with non-decreasing timestamps, the bars emitted over    *)
(* all calls form a contiguous, strictly increasing series: it starts at   *)
(* the period of the first tick, each bar starts where the previous one    *)
(* ends, and the in-progress period starts where the last one ends; every  *)
(* bar is one calendar period, so every period before the in-progress one  *)
(* is emitted exactly once.                                                *)
(***************************************************************************)
C17_RegularSeries ==
    (Ordered /\ Called) =>
        LET s == Series
            first == bar_start(tf, ticks[1].dt)
        IN  /\ \A i \in 1..Len(s) :
                  /\ s[i].bar_start < s[i].next_bar_dt
                  /\ s[i].next_bar_dt = next_bar_dt(tf, s[i].bar_start)
                  /\ s[i].bar_start = IF i = 1 THEN first ELSE s[i - 1].next_bar_dt
                  /\ PeriodIndex(tf, s[i].bar_start) = PeriodIndex(tf, first) + i - 1
            /\ \A i, j \in 1..Len(s) : i < j => s[i].bar_start < s[j].bar_start
            /\ state.bar_start = IF s = <<>> THEN first ELSE s[Len(s)].next_bar_dt
            /\ PeriodIndex(tf, state.bar_start) = PeriodIndex(tf, first) + Len(s)

\* Two closing calls, the second one after a silence: three bars or more.
C17_Witness ==
    /\ Ordered
    /\ Len(ticks) = 3
    /\ log[2].res # None
    /\ log[3].res # None
    /\ Len(log[3].res.empty) >= 1
    /\ Len(Series) >= 3

(***************************************************************************)
(* C18: after every call of a non-decreasing tick sequence, with t the     *)
(* call's timestamp, the sampler is accumulating the period of its         *)
(* timeframe that holds t: bar_start = bar_start(t), next_bar_dt =         *)
(* next_bar_dt(t) and bar_start <= t < next_bar_dt; after a closing tick   *)
(* the period is seeded with open = high = low = close = the tick's price. *)
(***************************************************************************)
C18_PeriodTracksLatestTick ==
    (Ordered /\ Called) =>
        /\ state # None
        /\ state.bar_start = bar_start(tf, LastDt)
        /\ state.next_bar_dt = next_bar_dt(tf, LastDt)
        /\ state.bar_start <= LastDt
        /\ LastDt < state.next_bar_dt
        /\ Closing =>
              /\ state.open = LastValue
              /\ state.high = LastValue
              /\ state.low = LastValue
              /\ state.close = LastValue

\* A closing tick after a silence, carrying a price other than the closed
\* bar's.
C18_Witness ==
    /\ Ordered
    /\ Closing
    /\ Len(res.empty) >= 1
    /\ state.bar_start = bar_start(tf, LastDt)
    /\ state.open = LastValue
    /\ LastValue # res.bar.close

(***************************************************************************)
(* C19: on the first tick the period of the sampler is [bar_start(t),      *)
(* next_bar_dt(t)); the end computed from the tick equals the end computed *)
(* from the period's start, next_bar_dt(bar_start(t)) = next_bar_dt(t),    *)
(* for every timeframe of the catalog and every timestamp.                 *)
(***************************************************************************)
C19_EndFromStartIsEndFromTick ==
    Probed =>
        LET first == FirstTick(tf, probe.dt, 0).state
        IN  /\ probe.next_of_start = probe.next_bar_dt
            /\ first.bar_start = probe.bar_start
            /\ first.next_bar_dt = next_bar_dt(tf, first.bar_start)

\* A 15-minute sampler probed one second before the end of a period.
C19_Witness ==
    /\ Probed
    /\ tf = M15
    /\ probe.dt = probe.bar_start + 899
    /\ probe.next_of_start = probe.dt + 1

(***************************************************************************)
(* The while loop of next_bar, one iteration at a time.  locals holds the  *)
(* position in the closing branch and its local variables:                 *)
(*   "idle"   no call of the closing branch is running                     *)
(*   "while"  at the loop's test, with dt, value, close, empty_bar_start,  *)
(*            empty_bar_end and empty_bars                                 *)
(*   "done"   the call has returned                                        *)
(* The sampler is given a first tick, then a tick at or past the end of    *)
(* its period.                                                             *)
(***************************************************************************)
MaxFar == 4

\* The length of a period, or of the longest one.
LoopUnit(t) == IF t.kind = "Mn1" THEN 31 * 86400 ELSE PeriodSeconds(t)

\* Instants at the period's end and up to MaxFar period lengths past it.
LoopTimes(t, st) ==
    {st.next_bar_dt + j * LoopUnit(t) + o :
        j \in 0..MaxFar, o \in {0, 1, LoopUnit(t) - 1}}

InitLoop == Init

\* The first tick.
FirstCall ==
    /\ state = None
    /\ NextBar

\* Lines 106-115: the closing branch is entered and the locals are set.
LoopEnter ==
    /\ locals.pc = "idle"
    /\ state # None
    /\ \E dt \in LoopTimes(tf, state), value \in Prices :
          /\ dt >= state.next_bar_dt
          /\ locals' = [pc |-> "while", dt |-> dt, value |-> value,
                        close |-> state.close,
                        empty_bar_start |-> state.next_bar_dt,
                        empty_bar_end |-> next_bar_dt(tf, state.next_bar_dt),
                        empty_bars |-> <<>>]
    /\ UNCHANGED <<tf, samplerVars, probe, snapshot, lookup, fleet, stream>>

\* Mutant of the loop body: empty_bar_end is not recomputed.
LoopIter_KeepsEnd ==
    /\ locals.pc = "while"
    /\ locals.dt >= locals.empty_bar_end
    /\ locals' = [locals EXCEPT
                     !.empty_bars =
                         Append(@, Bar(locals.close, locals.close, locals.close,
                                       locals.close, locals.empty_bar_start,
                                       locals.empty_bar_end)),
                     !.empty_bar_start = locals.empty_bar_end]
    /\ UNCHANGED <<tf, samplerVars, probe, snapshot, lookup, fleet, stream>>

\* Lines 116-131: the test holds and the body runs once.
LoopIter ==
    /\ locals.pc = "while"
    /\ locals.dt >= locals.empty_bar_end
    /\ locals' = [locals EXCEPT
                     !.empty_bars =
                         Append(@, Bar(locals.close, locals.close, locals.close,
                                       locals.close, locals.empty_bar_start,
                                       locals.empty_bar_end)),
                     !.empty_bar_start = locals.empty_bar_end,
                     !.empty_bar_end = next_bar_dt(tf, locals.empty_bar_end)]
    /\ UNCHANGED <<tf, samplerVars, probe, snapshot, lookup, fleet, stream>>

\* Lines 116, 133-146: the test fails, the state is stored and the call returns.
LoopExit ==
    /\ locals.pc = "while"
    /\ locals.dt < locals.empty_bar_end
    /\ LET full_bar == BarFromState(state)
           r == [state |-> State_new(locals.empty_bar_start,
                                     locals.empty_bar_end, locals.value,
                                     locals.value, locals.value, locals.value),
                 res |-> IF Len(locals.empty_bars) > 0
                         THEN WithEmpty(full_bar, locals.empty_bars)
                         ELSE Single(full_bar)]
       IN  /\ state' = r.state
           /\ res' = r.res
           /\ pre' = state
           /\ ticks' = Append(ticks, Tick(locals.dt, locals.value))
           /\ log' = Append(log, r)
    /\ locals' = [locals EXCEPT !.pc = "done"]
    /\ UNCHANGED <<tf, probe, snapshot, lookup, fleet, stream>>

NextLoop == FirstCall \/ LoopEnter \/ LoopIter \/ LoopExit

\* A call that has started runs on: the loop's next step is taken.
SpecLoop ==
    /\ InitLoop
    /\ [][NextLoop]_vars
    /\ WF_vars(LoopIter)
    /\ WF_vars(LoopExit)

\* In the loop: the clock has strictly advanced and has not passed dt, and
\* every bar pushed ends at or before dt.
LoopProgress ==
    locals.pc = "while" =>
        /\ locals.empty_bar_start < locals.empty_bar_end
        /\ locals.empty_bar_start <= locals.dt
        /\ Len(locals.empty_bars) <= locals.dt - state.next_bar_dt
        /\ \A i \in 1..Len(locals.empty_bars) :
              /\ locals.empty_bars[i].bar_start < locals.empty_bars[i].next_bar_dt
              /\ locals.empty_bars[i].next_bar_dt <= locals.dt

\* After the call: the list is the loop's, its last bar ends at or before dt,
\* and the call did what next_bar does.
LoopResult ==
    locals.pc = "done" =>
        /\ res.empty = locals.empty_bars
        /\ res.empty # <<>> =>
              res.empty[Len(res.empty)].next_bar_dt <= locals.dt
        /\ locals.dt < locals.empty_bar_end
        /\ [state |-> state, res |-> res] =
              next_bar(tf, pre, locals.dt, locals.value)

(***************************************************************************)
(* C20: for every timeframe, every accumulating state and every tick at or *)
(* past the period's end, however far, the while loop of next_bar          *)
(* terminates: next_bar_dt strictly advances the clock on every iteration, *)
(* and the call returns a finite list of empty bars whose last next_bar_dt *)
(* is at or before the tick's timestamp.                                   *)
(***************************************************************************)
C20_GapFillTerminates ==
    /\ [](LoopProgress /\ LoopResult)
    /\ (locals.pc = "while") ~> (locals.pc = "done")

\* The loop ran MaxFar times and the call returned.
C20_Witness ==
    /\ locals.pc = "done"
    /\ Len(locals.empty_bars) = MaxFar
    /\ res.tag = "WithEmpty"
    /\ locals.dt > res.empty[MaxFar].next_bar_dt

(***************************************************************************)
(* C21: for every N-minute timeframe next_bar_dt(t) - bar_start(t) is      *)
(* exactly N minutes and the boundaries are the multiples of N minutes     *)
(* past each hour, the last period of an hour ending at the top of the     *)
(* next hour, also across midnight; for every N-hour timeframe the length  *)
(* is exactly N hours and the boundaries are the multiples of N hours past *)
(* midnight, the last period of a day ending at the next midnight.  The    *)
(* seconds of t never affect the boundary.                                 *)
(***************************************************************************)
C21_FixedLengthAlignment ==
    Probed =>
        LET dt == probe.dt
            bs == probe.bar_start
            nb == probe.next_bar_dt
            N == tf.period
            whole == dt - second(dt)
        IN  /\ tf.kind = "Minute" =>
                  /\ N \in {1, 2, 3, 4, 5, 6, 10, 12, 15, 20, 30}
                  /\ nb - bs = 60 * N
                  /\ bs <= dt /\ dt < nb
                  /\ second(bs) = 0 /\ second(nb) = 0
                  /\ minute(bs) % N = 0 /\ minute(nb) % N = 0
                  /\ date(bs) = date(dt) /\ hour(bs) = hour(dt)
                  /\ minute(bs) + N = 60 =>
                        nb = and_hms(date(dt), hour(dt), 0, 0) + 3600
                  /\ (minute(bs) + N = 60 /\ hour(dt) = 23) =>
                        nb = and_hms(date(dt) + 1, 0, 0, 0)
                  /\ next_bar_dt(tf, whole) = nb
                  /\ bar_start(tf, whole) = bs
            /\ tf.kind = "Hour" =>
                  /\ N \in {1, 2, 3, 4, 6, 8, 12}
                  /\ nb - bs = 3600 * N
                  /\ bs <= dt /\ dt < nb
                  /\ second(bs) = 0 /\ minute(bs) = 0
                  /\ second(nb) = 0 /\ minute(nb) = 0
                  /\ hour(bs) % N = 0 /\ hour(nb) % N = 0
                  /\ date(bs) = date(dt)
                  /\ hour(bs) + N = 24 => nb = and_hms(date(dt) + 1, 0, 0, 0)
                  /\ next_bar_dt(tf, whole) = nb
                  /\ bar_start(tf, whole) = bs
                  /\ next_bar_dt(tf, and_hms(date(dt), hour(dt), 0, 0)) = nb

\* A 20-minute sampler probed in the last second of a year: the period
\* [23:40, 00:00) ends at the midnight that starts the next year.
C21_Witness ==
    /\ Probed
    /\ tf = M20
    /\ probe.dt = Ymdhms(2015, 12, 31, 23, 59, 59)
    /\ probe.bar_start = Ymdhms(2015, 12, 31, 23, 40, 0)
    /\ probe.next_bar_dt = Ymdhms(2016, 1, 1, 0, 0, 0)

\* low <= open <= high and low <= close <= high, for a state or a bar.
OhlcOrdered(b) ==
    /\ b.low <= b.open
    /\ b.open <= b.high
    /\ b.low <= b.close
    /\ b.close <= b.high

(***************************************************************************)
(* C22: in every reachable sampler state and in every bar ever emitted,    *)
(* closed or empty, low <= open <= high and low <= close <= high, for any  *)
(* sequence of ticks, ordered or not.                                      *)
(***************************************************************************)
C22_OhlcOrdering ==
    /\ state # None => OhlcOrdered(state)
    /\ \A n \in 1..Len(log) :
          /\ OhlcOrdered(log[n].state)
          /\ \A i \in 1..Len(BarsOf(log[n].res)) :
                OhlcOrdered(BarsOf(log[n].res)[i])

\* Out-of-order ticks; a closed bar that opened at its high and closed at
\* its low, followed by an empty bar.
C22_Witness ==
    /\ ~Ordered
    /\ \E n \in 1..Len(log) :
          /\ log[n].res # None
          /\ log[n].res.bar.open = log[n].res.bar.high
          /\ log[n].res.bar.close = log[n].res.bar.low
          /\ log[n].res.bar.low < log[n].res.bar.high
          /\ Len(log[n].res.empty) >= 1

=============================================================================
